---- MODULE Spec2Model ----
(***************************************************************************)
(* Model of the MissionScene service (mission-scene-service.js): the       *)
(* builder object, its rebuildScene operation and the helpers it calls.    *)
(* Objects are values carrying an identity (id); a scene is the sequence   *)
(* of its children in the order scene.add() received them.                 *)
(***************************************************************************)
EXTENDS Integers, Sequences, FiniteSets, TLC

\* JavaScript null / undefined.
Null == [null |-> TRUE]

(***************************************************************************)
(* Bounds of the explored inputs.                                          *)
(***************************************************************************)
MaxCalls == 2          \* rebuildScene calls in one behaviour
MaxCoord == 1          \* latitudes and longitudes range over -MaxCoord..MaxCoord
MaxAlt == 1            \* altitudes handed to setObjectPosition_ range over 0..MaxAlt
MaxGrid == 2           \* search-grid points of a mission
MaxWaypoints == 2      \* waypoints of a mission

(***************************************************************************)
(* Arithmetic helpers.                                                     *)
(***************************************************************************)
Abs(n) == IF n < 0 THEN -n ELSE n

\* Math.sign on the numbers of the model.
Sign(n) == IF n > 0 THEN 1 ELSE IF n < 0 THEN -1 ELSE 0

Pos(lat, lon) == [latitude |-> lat, longitude |-> lon]

Coords == (0 - MaxCoord)..MaxCoord

GpsPositions == {Pos(lat, lon) : lat \in Coords, lon \in Coords}

(***************************************************************************)
(* The Distance service.  An integer great-circle stand-in: feet per       *)
(* degree of latitude is constant, feet per degree of longitude shrinks    *)
(* with the latitude it is measured at.  It is non-negative and zero       *)
(* exactly for identical points on the grid of the model.                  *)
(***************************************************************************)
FeetPerDegree == 100

Haversine(lat1, lon1, lat2, lon2) ==
    FeetPerDegree * Abs(lat1 - lat2)
        + (FeetPerDegree - 10 * Abs(lat1)) * Abs(lon1 - lon2)

(***************************************************************************)
(* setObjectPosition_(pos, alt, refPos, objPos): the value left in objPos. *)
(***************************************************************************)
SetObjectPositionNoSign_(pos, alt, refPos) ==
    [x |-> Haversine(refPos.latitude, pos.longitude,
                     refPos.latitude, refPos.longitude),
     y |-> Haversine(pos.latitude, refPos.longitude,
                     refPos.latitude, refPos.longitude),
     z |-> alt]

SetObjectPosition_(pos, alt, refPos) ==
    [x |-> Sign(pos.longitude - refPos.longitude)
             * Haversine(refPos.latitude, pos.longitude,
                         refPos.latitude, refPos.longitude),
     y |-> Sign(pos.latitude - refPos.latitude)
             * Haversine(pos.latitude, refPos.longitude,
                         refPos.latitude, refPos.longitude),
     z |-> alt]

(***************************************************************************)
(* Object identity.  Obj(0, n) is the n-th object the constructor          *)
(* allocates; Obj(k, n) is the n-th object the k-th rebuildScene call      *)
(* allocates (n = 0 is the THREE.Scene of the call).                       *)
(***************************************************************************)
Obj(alloc, n) == [alloc |-> alloc, n |-> n]

missionComponentRadius_ == 20

telemetryRadius_ == 20

\* The fields the constructor sets, apart from `scene`.
MissionSceneFields ==
    [skyLight                     |-> Obj(0, 1),
     sunLight                     |-> Obj(0, 2),
     groundTexture_               |-> Obj(0, 3),
     groundMaterial_              |-> Obj(0, 4),
     groundGeometry_              |-> Obj(0, 5),
     ground                       |-> Obj(0, 6),
     missionComponentRadius_      |-> missionComponentRadius_,
     missionComponentGeometry_    |-> Obj(0, 7),
     missionComponentMaterial_    |-> Obj(0, 8),
     homePosGeometry_             |-> Obj(0, 7),
     homePosMaterial_             |-> Obj(0, 9),
     searchGridPtGeometry_        |-> Obj(0, 7),
     searchGridPtMaterial_        |-> Obj(0, 10),
     searchGridPtRadius_          |-> missionComponentRadius_,
     searchGridPtLineMaterial_    |-> Obj(0, 11),
     missionWaypointGeometry_     |-> Obj(0, 7),
     missionWaypointMaterial_     |-> Obj(0, 12),
     missionWaypointLineMaterial_ |-> Obj(0, 13),
     stationaryObstacleGeometry_  |-> Obj(0, 14),
     stationaryObstacleMaterial_  |-> Obj(0, 15),
     movingObstacleGeometry_      |-> Obj(0, 7),
     movingObstacleMaterial_      |-> Obj(0, 15),
     telemetryGeometry_           |-> Obj(0, 7),
     telemetryRadius_             |-> telemetryRadius_,
     telemetryMaterial_           |-> Obj(0, 16)]

(***************************************************************************)
(* State.                                                                  *)
(***************************************************************************)
VARIABLES
    scene,       \* this.scene: Null or the scene object
    builder,     \* every other field of the MissionScene object
    nextAlloc,   \* number of the next rebuildScene call (allocation epoch)
    broadcasts,  \* what $rootScope.$broadcast received, with the value of
                 \* this.scene an observer reads while it is delivered
    completed,   \* rebuildScene calls that returned
    builtFrom,   \* arguments of the last call that returned
    outcome,     \* how the last call ended, and whether its mission had a
                 \* home position
    repeated,    \* the last call had the arguments of the call before it,
                 \* and both returned
    argPos, argAlt, argRefPos, objPos   \* one setObjectPosition_ call

vars == <<scene, builder, nextAlloc, broadcasts, completed, builtFrom,
          outcome, repeated, argPos, argAlt, argRefPos, objPos>>

builderVars == <<scene, builder, nextAlloc, broadcasts, completed, builtFrom,
                 outcome, repeated>>

positionVars == <<argPos, argAlt, argRefPos, objPos>>

(***************************************************************************)
(* Scene objects.  Every child of a scene has the same record shape.       *)
(***************************************************************************)
Vec(x, y, z) == [x |-> x, y |-> y, z |-> z]

\* One of the objects the constructor made (ground, skyLight, sunLight),
\* seen as a child of a scene.  Fields the model does not use hold the
\* THREE.Object3D defaults.
SharedChild(id) ==
    [id |-> id, type |-> "shared", geometry |-> Null, material |-> Null,
     position |-> Vec(0, 0, 0), scale |-> Vec(1, 1, 1),
     rotation |-> Vec(0, 0, 0),
     castShadow |-> FALSE, receiveShadow |-> FALSE, vertices |-> <<>>,
     gps |-> Null, alt |-> 0]

\* new THREE.Mesh(geometry, material) as createObject_ leaves it.  gps and
\* alt remember the arguments the position was computed from.
MeshCastOnly(id, geometry, material, gps, alt, position, scale) ==
    [id |-> id, type |-> "Mesh", geometry |-> geometry, material |-> material,
     position |-> position, scale |-> Vec(scale, scale, scale),
     rotation |-> Vec(0, 0, 0),
     castShadow |-> TRUE, receiveShadow |-> FALSE, vertices |-> <<>>,
     gps |-> gps, alt |-> alt]

Mesh(id, geometry, material, gps, alt, position, scale) ==
    [id |-> id, type |-> "Mesh", geometry |-> geometry, material |-> material,
     position |-> position, scale |-> Vec(scale, scale, scale),
     rotation |-> Vec(0, 0, 0),
     castShadow |-> TRUE, receiveShadow |-> TRUE, vertices |-> <<>>,
     gps |-> gps, alt |-> alt]

\* new THREE.Line(geometry, material), geometry being a fresh THREE.Geometry
\* holding `vertices`.
Line(id, vertices, material) ==
    [id |-> id, type |-> "Line", geometry |-> Null, material |-> material,
     position |-> Vec(0, 0, 0), scale |-> Vec(1, 1, 1),
     rotation |-> Vec(0, 0, 0),
     castShadow |-> FALSE, receiveShadow |-> FALSE, vertices |-> vertices,
     gps |-> Null, alt |-> 0]

(***************************************************************************)
(* The arguments of rebuildScene.                                          *)
(***************************************************************************)
HomePos == Pos(0, 0)

Mission(home, poi, grid, waypoints) ==
    [home_pos                   |-> home,
     air_drop_pos               |-> poi[1],
     emergent_last_known_pos    |-> poi[2],
     ir_primary_target_pos      |-> poi[3],
     ir_secondary_target_pos    |-> poi[4],
     off_axis_target_pos        |-> poi[5],
     sric_pos                   |-> poi[6],
     search_grid_points         |-> grid,
     mission_waypoints          |-> waypoints,
     mission_waypoints_dist_max |-> 50]

AllPoi ==
    <<Pos(1, 1), Pos(1, 0), Pos(0, 1), Pos(-1, 0), Pos(0, -1), Pos(-1, -1)>>

\* The six point-of-interest positions: all present, or the first or the
\* last of them missing.
PoiChoices ==
    {AllPoi, [AllPoi EXCEPT ![1] = Null], [AllPoi EXCEPT ![6] = Null]}

\* The corners of the grid of positions, in turn.
Corner(i) ==
    <<Pos(MaxCoord, 0 - MaxCoord), Pos(0 - MaxCoord, MaxCoord),
      Pos(MaxCoord, MaxCoord), Pos(0 - MaxCoord, 0 - MaxCoord)>>[((i - 1) % 4) + 1]

\* The search grids of n points, and the waypoint lists of n waypoints.
SearchGrid(n) == [i \in 1..n |-> Corner(i)]

WaypointList(n) ==
    [i \in 1..n |-> [latitude     |-> Corner(i + 1).latitude,
                     longitude    |-> Corner(i + 1).longitude,
                     altitude_msl |-> 100 * i]]

Missions ==
    {Null, Mission(Null, AllPoi, SearchGrid(MaxGrid), WaypointList(MaxWaypoints))}
    \cup
    {Mission(HomePos, poi, SearchGrid(g), WaypointList(w)) :
        poi \in PoiChoices, g \in 0..MaxGrid, w \in 0..MaxWaypoints}

StationaryObstacles ==
    <<[latitude |-> 0, longitude |-> 1,
       cylinder_radius |-> 10, cylinder_height |-> 40],
      [latitude |-> 1, longitude |-> 0,
       cylinder_radius |-> 30, cylinder_height |-> 30]>>

MovingObstacles ==
    <<[latitude |-> -1, longitude |-> 0,
       altitude_msl |-> 150, sphere_radius |-> 25]>>

Obstacles ==
    {Null,
     [stationary_obstacles |-> <<>>, moving_obstacles |-> <<>>],
     [stationary_obstacles |-> StationaryObstacles,
      moving_obstacles     |-> MovingObstacles]}

\* A telemetry array is the record of its items, so that it compares with Null.
Telemetry ==
    {Null,
     [items |-> <<>>],
     [items |-> <<[latitude |-> 0, longitude |-> -1, altitude_msl |-> 120]>>]}

Args(mission, obstacles, telemetry) ==
    [mission |-> mission, obstacles |-> obstacles, telemetry |-> telemetry]

(***************************************************************************)
(* A rebuildScene call in progress: the local `scene` of the call (alloc   *)
(* is the call's number, children the scene's children so far) and         *)
(* whether a TypeError has been thrown, with the function that threw it.   *)
(***************************************************************************)
StartCall(k) ==
    [alloc |-> k, children |-> <<>>, status |-> "running", at |-> "none"]

Throw(ctx, at) == [ctx EXCEPT !.status = "TypeError", !.at = at]

\* scene.add(object) for the local scene of the call.
SceneAdd(ctx, child) == [ctx EXCEPT !.children = Append(@, child)]

\* What scene.add(object) does to the scene `sc` that held `id` before:
\* THREE.Object3D.add takes the object out of its previous parent.
Remove(sc, id) ==
    IF sc = Null THEN Null
    ELSE [sc EXCEPT !.children = SelectSeq(@, LAMBDA c : c.id # id)]

(***************************************************************************)
(* createObject_(geometry, material, pos, alt, refPos, scale, scene).      *)
(* setObjectPosition_ reads pos.longitude and refPos.latitude first, which *)
(* throws a TypeError on null or undefined.                                *)
(***************************************************************************)
CreateObject_(geometry, material, pos, alt, refPos, scale, ctx) ==
    IF ctx.status # "running" THEN ctx
    ELSE IF pos = Null \/ refPos = Null THEN Throw(ctx, "setObjectPosition_")
    ELSE SceneAdd(ctx,
            Mesh(Obj(ctx.alloc, Len(ctx.children) + 1), geometry, material,
                 Pos(pos.latitude, pos.longitude), alt,
                 SetObjectPosition_(pos, alt, refPos), scale))

(***************************************************************************)
(* addMissionSceneElements_(mission, scene).                               *)
(***************************************************************************)
MissionComponents(mission) ==
    <<mission.air_drop_pos, mission.emergent_last_known_pos,
      mission.ir_primary_target_pos, mission.ir_secondary_target_pos,
      mission.off_axis_target_pos, mission.sric_pos>>

AddHomePos_(mission, ctx) ==
    CreateObject_(builder.homePosGeometry_, builder.homePosMaterial_,
                  mission.home_pos, builder.missionComponentRadius_,
                  mission.home_pos, builder.missionComponentRadius_, ctx)

RECURSIVE AddMissionComponents_(_, _, _)
AddMissionComponents_(mission, i, ctx) ==
    IF ctx.status # "running" \/ ~(i < Len(MissionComponents(mission)))
    THEN ctx
    ELSE AddMissionComponents_(mission, i + 1,
            CreateObject_(builder.missionComponentGeometry_,
                          builder.missionComponentMaterial_,
                          MissionComponents(mission)[i + 1],
                          builder.missionComponentRadius_, mission.home_pos,
                          builder.missionComponentRadius_, ctx))

RECURSIVE AddSearchGridPoints_(_, _, _)
AddSearchGridPoints_(mission, i, ctx) ==
    IF ctx.status # "running" \/ ~(i < Len(mission.search_grid_points))
    THEN ctx
    ELSE AddSearchGridPoints_(mission, i + 1,
            CreateObject_(builder.searchGridPtGeometry_,
                          builder.searchGridPtMaterial_,
                          mission.search_grid_points[i + 1],
                          builder.searchGridPtRadius_, mission.home_pos,
                          builder.searchGridPtRadius_, ctx))

\* var j = (i + 1) % mission.search_grid_points.length
NextGridIndexNoWrap(i, n) == IF i + 1 < n THEN i + 1 ELSE i

NextGridIndex(i, n) == (i + 1) % n

\* The vertices pushed onto searchGridPtLineGeometry from iteration i on.
RECURSIVE SearchGridPtLineVertices_(_, _)
SearchGridPtLineVertices_(mission, i) ==
    IF ~(i < Len(mission.search_grid_points)) THEN <<>>
    ELSE LET j     == NextGridIndex(i, Len(mission.search_grid_points))
             start == mission.search_grid_points[i + 1]
             end   == mission.search_grid_points[j + 1]
         IN  <<SetObjectPosition_(start, builder.searchGridPtRadius_,
                                  mission.home_pos),
               SetObjectPosition_(end, builder.searchGridPtRadius_,
                                  mission.home_pos)>>
             \o SearchGridPtLineVertices_(mission, i + 1)

AddSearchGridPtLine_(mission, ctx) ==
    IF ctx.status # "running" THEN ctx
    ELSE SceneAdd(ctx,
            Line(Obj(ctx.alloc, Len(ctx.children) + 1),
                 SearchGridPtLineVertices_(mission, 0),
                 builder.searchGridPtLineMaterial_))

RECURSIVE AddMissionWaypoints_(_, _, _)
AddMissionWaypoints_(mission, i, ctx) ==
    IF ctx.status # "running" \/ ~(i < Len(mission.mission_waypoints))
    THEN ctx
    ELSE AddMissionWaypoints_(mission, i + 1,
            CreateObject_(builder.missionWaypointGeometry_,
                          builder.missionWaypointMaterial_,
                          mission.mission_waypoints[i + 1],
                          mission.mission_waypoints[i + 1].altitude_msl,
                          mission.home_pos,
                          mission.mission_waypoints_dist_max, ctx))

\* The loop condition i < mission.mission_waypoints.length - 1.
WaypointLineContinuesShort(i, n) == i < n - 2

WaypointLineContinues(i, n) == i < n - 1

\* The vertices pushed onto missionWaypointLineGeometry from iteration i on.
RECURSIVE MissionWaypointLineVertices_(_, _)
MissionWaypointLineVertices_(mission, i) ==
    IF ~WaypointLineContinues(i, Len(mission.mission_waypoints)) THEN <<>>
    ELSE LET start == mission.mission_waypoints[i + 1]
             end   == mission.mission_waypoints[i + 2]
         IN  <<SetObjectPosition_(start, start.altitude_msl,
                                  mission.home_pos),
               SetObjectPosition_(end, end.altitude_msl, mission.home_pos)>>
             \o MissionWaypointLineVertices_(mission, i + 1)

AddMissionWaypointLine_(mission, ctx) ==
    IF ctx.status # "running" THEN ctx
    ELSE SceneAdd(ctx,
            Line(Obj(ctx.alloc, Len(ctx.children) + 1),
                 MissionWaypointLineVertices_(mission, 0),
                 builder.missionWaypointLineMaterial_))

AddMissionSceneElements_(mission, ctx) ==
    AddMissionWaypointLine_(mission,
      AddMissionWaypoints_(mission, 0,
        AddSearchGridPtLine_(mission,
          AddSearchGridPoints_(mission, 0,
            AddMissionComponents_(mission, 0,
              AddHomePos_(mission, ctx))))))

(***************************************************************************)
(* addObstacleSceneElements_(mission, obstacles, refPos, scene).           *)
(* obstacles.stationary_obstacles throws a TypeError on a null obstacles.  *)
(***************************************************************************)
\* obstacle.cylinder_height / 2; the heights of the model are even.
Half(n) == n \div 2

\* obstacleObj.scale.set(radius, height, radius) and
\* obstacleObj.rotation.set(Math.PI/2, 0, 0) on the object createObject_
\* returned; a rotation is counted in quarter turns.
ScaleAndRotate_(obstacle, ctx) ==
    IF ctx.status # "running" THEN ctx
    ELSE [ctx EXCEPT !.children[Len(ctx.children)] =
            [@ EXCEPT !.scale = Vec(obstacle.cylinder_radius,
                                    obstacle.cylinder_height,
                                    obstacle.cylinder_radius),
                      !.rotation = Vec(1, 0, 0)]]

RECURSIVE AddStationaryObstacles_(_, _, _, _)
AddStationaryObstacles_(mission, obstacles, i, ctx) ==
    IF ctx.status # "running" \/ ~(i < Len(obstacles.stationary_obstacles))
    THEN ctx
    ELSE LET obstacle == obstacles.stationary_obstacles[i + 1]
         IN  AddStationaryObstacles_(mission, obstacles, i + 1,
                ScaleAndRotate_(obstacle,
                    CreateObject_(builder.stationaryObstacleGeometry_,
                                  builder.stationaryObstacleMaterial_,
                                  obstacle, Half(obstacle.cylinder_height),
                                  mission.home_pos, 1, ctx)))

RECURSIVE AddMovingObstacles_(_, _, _, _)
AddMovingObstacles_(mission, obstacles, i, ctx) ==
    IF ctx.status # "running" \/ ~(i < Len(obstacles.moving_obstacles))
    THEN ctx
    ELSE LET obstacle == obstacles.moving_obstacles[i + 1]
         IN  AddMovingObstacles_(mission, obstacles, i + 1,
                CreateObject_(builder.movingObstacleGeometry_,
                              builder.movingObstacleMaterial_,
                              obstacle, obstacle.altitude_msl,
                              mission.home_pos, obstacle.sphere_radius, ctx))

AddObstacleSceneElements_(mission, obstacles, ctx) ==
    IF ctx.status # "running" THEN ctx
    ELSE IF obstacles = Null THEN Throw(ctx, "addObstacleSceneElements_")
    ELSE AddMovingObstacles_(mission, obstacles, 0,
            AddStationaryObstacles_(mission, obstacles, 0, ctx))

(***************************************************************************)
(* addTelemetrySceneElements_(mission, telemetry, refPos, scene).          *)
(* telemetry.length throws a TypeError on a null telemetry.                *)
(***************************************************************************)
RECURSIVE AddTelemetry_(_, _, _, _)
AddTelemetry_(mission, telemetry, i, ctx) ==
    IF ctx.status # "running" \/ ~(i < Len(telemetry.items))
    THEN ctx
    ELSE LET userTelem == telemetry.items[i + 1]
         IN  AddTelemetry_(mission, telemetry, i + 1,
                CreateObject_(builder.telemetryGeometry_,
                              builder.telemetryMaterial_,
                              userTelem, userTelem.altitude_msl,
                              mission.home_pos, builder.telemetryRadius_, ctx))

AddTelemetrySceneElements_(mission, telemetry, ctx) ==
    IF ctx.status # "running" THEN ctx
    ELSE IF telemetry = Null THEN Throw(ctx, "addTelemetrySceneElements_")
    ELSE AddTelemetry_(mission, telemetry, 0, ctx)

(***************************************************************************)
(* rebuildScene(mission, obstacles, telemetry).                            *)
(***************************************************************************)
\* The ground and the two lights, in the order rebuildScene adds them.
SharedObjects == <<builder.ground, builder.skyLight, builder.sunLight>>

\* scene.add(this.ground); scene.add(this.skyLight); scene.add(this.sunLight)
AddGroundAndLights_(ctx) ==
    SceneAdd(SceneAdd(SceneAdd(ctx, SharedChild(builder.ground)),
                      SharedChild(builder.skyLight)),
             SharedChild(builder.sunLight))

\* The scene `sc` once the ground and the lights have been added to another.
WithoutGroundAndLights(sc) ==
    Remove(Remove(Remove(sc, builder.ground), builder.skyLight),
           builder.sunLight)

\* !!mission && !!mission.home_pos
HasHomePosMissionOnly(mission) == mission # Null

HasHomePos(mission) ==
    IF mission = Null THEN FALSE ELSE mission.home_pos # Null

\* var scene = new THREE.Scene(): the local scene of call k starts empty.
ReusedScene(k) ==
    IF scene = Null THEN StartCall(k)
    ELSE [alloc |-> scene.id.alloc,
          children |-> WithoutGroundAndLights(scene).children,
          status |-> "running", at |-> "none"]

FreshScene(k) == StartCall(k)

\* The call up to the end of the element-adding part (lines 119-135).
BuildScene(mission, obstacles, telemetry, k) ==
    LET ctx == AddGroundAndLights_(FreshScene(k))
    IN  IF HasHomePos(mission)
        THEN AddTelemetrySceneElements_(mission, telemetry,
               AddObstacleSceneElements_(mission, obstacles,
                 AddMissionSceneElements_(mission, ctx)))
        ELSE ctx

\* The scene object a call in progress has built.  `complete` records that
\* control reached the end of the element-adding part of rebuildScene.
SceneOf(ctx) ==
    [id |-> Obj(ctx.alloc, 0), children |-> ctx.children,
     complete |-> ctx.status = "running"]

\* this.scene when the call ends: line 138 runs only if nothing threw; the
\* scene held before has lost the ground and the lights to the new one.
SceneFieldAssignedEarly(before, ctx) == SceneOf(ctx)

SceneField(before, ctx) ==
    IF ctx.status = "running" THEN SceneOf(ctx)
    ELSE WithoutGroundAndLights(before)

\* The value of this.scene while $broadcast delivers the event: line 138
\* has run before line 139.
SceneAtBroadcastStale(before, built) == before

SceneAtBroadcast(before, built) == built

SceneId(sc) == IF sc = Null THEN Null ELSE sc.id

RebuildScene(mission, obstacles, telemetry) ==
    /\ nextAlloc <= MaxCalls
    /\ \E ctx \in {BuildScene(mission, obstacles, telemetry, nextAlloc)} :
       LET ok == ctx.status = "running"
       IN  /\ scene' = SceneField(scene, ctx)
           /\ broadcasts' =
                IF ok
                THEN Append(broadcasts,
                        [name |-> "MissionScene.sceneUpdated",
                         seen |-> SceneId(SceneAtBroadcast(scene, SceneOf(ctx)))])
                ELSE broadcasts
           /\ completed' = IF ok THEN completed + 1 ELSE completed
           /\ builtFrom' =
                IF ok THEN Args(mission, obstacles, telemetry) ELSE builtFrom
           /\ outcome' = [status |-> IF ok THEN "ok" ELSE ctx.status,
                          at     |-> ctx.at,
                          home   |-> (mission # Null
                                      /\ mission.home_pos # Null)]
           /\ repeated' = (ok /\ outcome.status = "ok"
                              /\ builtFrom = Args(mission, obstacles, telemetry))
    /\ nextAlloc' = nextAlloc + 1
    /\ UNCHANGED builder
    /\ UNCHANGED positionVars

(***************************************************************************)
(* One setObjectPosition_(pos, alt, refPos, objPos) call on its own.       *)
(***************************************************************************)
SetObjectPosition ==
    /\ objPos = Null
    /\ objPos' = SetObjectPosition_(argPos, argAlt, argRefPos)
    /\ UNCHANGED <<argPos, argAlt, argRefPos>>
    /\ UNCHANGED builderVars

(***************************************************************************)
(* Specifications.                                                         *)
(***************************************************************************)
InitBuilder ==
    /\ scene = Null
    /\ builder = MissionSceneFields
    /\ nextAlloc = 1
    /\ broadcasts = <<>>
    /\ completed = 0
    /\ builtFrom = Null
    /\ outcome = [status |-> "none", at |-> "none", home |-> FALSE]
    /\ repeated = FALSE

Init ==
    /\ InitBuilder
    /\ argPos = Null
    /\ argAlt = 0
    /\ argRefPos = Null
    /\ objPos = Null

Next ==
    \E mission \in Missions, obstacles \in Obstacles, telemetry \in Telemetry :
        RebuildScene(mission, obstacles, telemetry)

Spec == Init /\ [][Next]_vars

InitPosition ==
    /\ InitBuilder
    /\ argPos \in GpsPositions
    /\ argAlt \in 0..MaxAlt
    /\ argRefPos \in GpsPositions
    /\ objPos = Null

NextPosition == SetObjectPosition

SpecPosition == InitPosition /\ [][NextPosition]_vars

(***************************************************************************)
(* Vocabulary of the properties.                                           *)
(***************************************************************************)
\* The last rebuildScene call returned: `scene` is the scene it built and
\* builtFrom holds its arguments.
Returned == outcome.status = "ok"

Threw == outcome.status = "TypeError"

ChildIds(sc) == [k \in 1..Len(sc.children) |-> sc.children[k].id]

Markers(sc) == SelectSeq(sc.children, LAMBDA c : c.type = "Mesh")

Lines(sc) == SelectSeq(sc.children, LAMBDA c : c.type = "Line")

LinesOf(sc, material) ==
    SelectSeq(sc.children, LAMBDA c : c.type = "Line" /\ c.material = material)

\* The markers and lines of a scene without their identities.
Structure(sc) ==
    LET elements == SelectSeq(sc.children, LAMBDA c : c.type # "shared")
    IN  [k \in 1..Len(elements) |-> [elements[k] EXCEPT !.id = Null]]

UniformScale(c) == c.scale.x = c.scale.y /\ c.scale.y = c.scale.z

IsStationaryObstacle(c) == c.geometry = builder.stationaryObstacleGeometry_

(***************************************************************************)
(* C1.  Every rebuildScene call that returns emits exactly one             *)
(* 'MissionScene.sceneUpdated' notification, and emits it after this.scene *)
(* has been replaced: the observers of the k-th notification read the      *)
(* scene the k-th returning call built, never the previous scene or null.  *)
(***************************************************************************)
C1_NotificationAfterUpdate ==
    /\ Len(broadcasts) = completed
    /\ \A k \in 1..Len(broadcasts) :
          /\ broadcasts[k].name = "MissionScene.sceneUpdated"
          /\ broadcasts[k].seen # Null
          /\ \A j \in 1..(k - 1) :
                broadcasts[j].seen.alloc < broadcasts[k].seen.alloc
    /\ Returned =>
          /\ scene.id = Obj(nextAlloc - 1, 0)
          /\ broadcasts[Len(broadcasts)].seen = scene.id

C1_Witness ==
    /\ Returned
    /\ completed = 2
    /\ Len(broadcasts) = 2

(***************************************************************************)
(* C2.  A rebuildScene call whose mission is null or has no home position  *)
(* returns, and the scene it built has exactly the ground and the two      *)
(* lights as children, whatever obstacles and telemetry were passed.       *)
(***************************************************************************)
C2_NoHomeMinimalScene ==
    (outcome.status # "none" /\ ~outcome.home) =>
        /\ Returned
        /\ ChildIds(scene) = SharedObjects
        /\ Markers(scene) = <<>>
        /\ Lines(scene) = <<>>

C2_Witness ==
    /\ Returned
    /\ ~outcome.home
    /\ builtFrom.mission # Null
    /\ builtFrom.obstacles # Null
    /\ builtFrom.obstacles.stationary_obstacles # <<>>
    /\ builtFrom.telemetry # Null
    /\ Len(scene.children) = 3

(***************************************************************************)
(* C3.  rebuildScene raises no error when its inputs are absent or null:   *)
(* every call returns.                                                     *)
(***************************************************************************)
C3_NoErrorOnAbsentInputs == ~Threw

(***************************************************************************)
(* C4.  For a mission with a home position and N >= 0 search-grid points   *)
(* the search-grid line holds exactly N segments, segment i running from   *)
(* grid point i to grid point (i + 1) mod N.                               *)
(***************************************************************************)
C4_SearchGridClosedLoop ==
    (Returned /\ outcome.home) =>
        LET mission == builtFrom.mission
            grid    == mission.search_grid_points
            N       == Len(grid)
            lines   == LinesOf(scene, builder.searchGridPtLineMaterial_)
            Local(p) == SetObjectPosition_(p, builder.searchGridPtRadius_,
                                           mission.home_pos)
        IN  /\ Len(lines) = 1
            /\ Len(lines[1].vertices) = 2 * N
            /\ \A i \in 0..(N - 1) :
                  /\ lines[1].vertices[2 * i + 1] = Local(grid[i + 1])
                  /\ lines[1].vertices[2 * i + 2] = Local(grid[((i + 1) % N) + 1])

C4_Witness ==
    /\ Returned
    /\ outcome.home
    /\ Len(builtFrom.mission.search_grid_points) >= 2
    /\ Len(LinesOf(scene, builder.searchGridPtLineMaterial_)[1].vertices) >= 4

(***************************************************************************)
(* C5.  For a mission with a home position and N waypoints the waypoint    *)
(* line holds exactly N - 1 segments, segment i running from waypoint i to *)
(* waypoint i + 1.  As stated, for every N.                                *)
(***************************************************************************)
C5_WaypointOpenPath_AsStated ==
    (Returned /\ outcome.home) =>
        LET N     == Len(builtFrom.mission.mission_waypoints)
            lines == LinesOf(scene, builder.missionWaypointLineMaterial_)
        IN  /\ Len(lines) = 1
            /\ Len(lines[1].vertices) = 2 * (N - 1)

(***************************************************************************)
(* C5, amended.  The waypoint line holds exactly N - 1 segments when       *)
(* N >= 1 and none when N = 0; segment i runs from waypoint i to waypoint  *)
(* i + 1, and no segment starts at the last waypoint.                      *)
(***************************************************************************)
C5_WaypointOpenPath ==
    (Returned /\ outcome.home) =>
        LET mission   == builtFrom.mission
            waypoints == mission.mission_waypoints
            N         == Len(waypoints)
            segments  == IF N >= 1 THEN N - 1 ELSE 0
            lines     == LinesOf(scene, builder.missionWaypointLineMaterial_)
            Local(w)  == SetObjectPosition_(w, w.altitude_msl, mission.home_pos)
        IN  /\ Len(lines) = 1
            /\ Len(lines[1].vertices) = 2 * segments
            /\ \A i \in 0..(segments - 1) :
                  /\ lines[1].vertices[2 * i + 1] = Local(waypoints[i + 1])
                  /\ lines[1].vertices[2 * i + 2] = Local(waypoints[i + 2])

C5_Witness ==
    /\ Returned
    /\ outcome.home
    /\ Len(builtFrom.mission.mission_waypoints) >= 2
    /\ Len(LinesOf(scene, builder.missionWaypointLineMaterial_)[1].vertices) >= 2

(***************************************************************************)
(* C6.  setObjectPosition_ leaves x = sign(P.longitude - R.longitude)      *)
(* times the distance along the longitude axis, y = sign(P.latitude -      *)
(* R.latitude) times the distance along the latitude axis, and z = the     *)
(* altitude: P = R gives (0, 0), and the sign of each axis is the sign of  *)
(* the coordinate difference.                                              *)
(***************************************************************************)
C6_LocalCoordinates ==
    objPos # Null =>
        LET dLon  == argPos.longitude - argRefPos.longitude
            dLat  == argPos.latitude - argRefPos.latitude
            distX == Haversine(argRefPos.latitude, argPos.longitude,
                               argRefPos.latitude, argRefPos.longitude)
            distY == Haversine(argPos.latitude, argRefPos.longitude,
                               argRefPos.latitude, argRefPos.longitude)
        IN  /\ Abs(objPos.x) = distX
            /\ Abs(objPos.y) = distY
            /\ Sign(objPos.x) = Sign(dLon)
            /\ Sign(objPos.y) = Sign(dLat)
            /\ objPos.z = argAlt
            /\ (argPos = argRefPos => objPos.x = 0 /\ objPos.y = 0)

C6_Witness ==
    /\ objPos # Null
    /\ argPos.longitude < argRefPos.longitude
    /\ argPos.latitude > argRefPos.latitude
    /\ objPos.x < 0
    /\ objPos.y > 0

(***************************************************************************)
(* C7.  Two rebuildScene calls in a row with identical arguments build     *)
(* scenes with the same markers and lines (counts, positions, scales,      *)
(* segments), and a call that returns never leaves in this.scene the scene *)
(* object that was there before.                                           *)
(***************************************************************************)
C7_StructurallyIdempotent ==
    [][ /\ repeated' => Structure(scene') = Structure(scene)
        /\ completed' # completed => SceneId(scene') # SceneId(scene)
      ]_vars

C7_Witness ==
    /\ repeated
    /\ Returned
    /\ outcome.home
    /\ Len(Markers(scene)) >= 8
    /\ Len(Lines(scene)) = 2

(***************************************************************************)
(* C8.  rebuildScene reassigns no field but this.scene, and every scene    *)
(* held in this.scene contains the ground and the two lights made at       *)
(* construction.                                                           *)
(***************************************************************************)
C8_SharedResourcesInEveryScene ==
    /\ builder = MissionSceneFields
    /\ scene # Null =>
          \A k \in 1..3 :
             \E j \in 1..Len(scene.children) :
                scene.children[j].id = SharedObjects[k]

(***************************************************************************)
(* C9.  Every marker of a scene rebuildScene built is positioned by        *)
(* setObjectPosition_ relative to the mission's home position, has equal   *)
(* x, y and z scale factors, and casts and receives shadows.  As stated.   *)
(***************************************************************************)
C9_MarkerPlacement_AsStated ==
    (Returned /\ outcome.home) =>
        \A k \in 1..Len(Markers(scene)) :
            LET c == Markers(scene)[k]
            IN  /\ c.position = SetObjectPosition_(c.gps, c.alt,
                                                   builtFrom.mission.home_pos)
                /\ UniformScale(c)
                /\ c.castShadow
                /\ c.receiveShadow

(***************************************************************************)
(* C9, amended.  Every marker is positioned by setObjectPosition_ relative *)
(* to the home position and casts and receives shadows; every marker but a *)
(* stationary obstacle has equal x, y and z scale factors, and the i-th    *)
(* stationary obstacle is scaled (radius, height, radius).                 *)
(***************************************************************************)
C9_MarkerPlacement ==
    (Returned /\ outcome.home) =>
        LET stationary == builtFrom.obstacles.stationary_obstacles
            cylinders  == SelectSeq(Markers(scene), IsStationaryObstacle)
        IN  /\ \A k \in 1..Len(Markers(scene)) :
                  LET c == Markers(scene)[k]
                  IN  /\ c.position =
                            SetObjectPosition_(c.gps, c.alt,
                                               builtFrom.mission.home_pos)
                      /\ c.castShadow
                      /\ c.receiveShadow
                      /\ ~IsStationaryObstacle(c) => UniformScale(c)
            /\ Len(cylinders) = Len(stationary)
            /\ \A i \in 1..Len(stationary) :
                  cylinders[i].scale = Vec(stationary[i].cylinder_radius,
                                           stationary[i].cylinder_height,
                                           stationary[i].cylinder_radius)

C9_Witness ==
    /\ Returned
    /\ outcome.home
    /\ Len(SelectSeq(Markers(scene), IsStationaryObstacle)) = 2
    /\ builtFrom.telemetry.items # <<>>
    /\ \E k \in 1..Len(Markers(scene)) : ~UniformScale(Markers(scene)[k])

====
